---- MODULE Spec2Model ----
(***************************************************************************)
(* VaccineMandateModel (src/vaccine_mandate_model.py): a parameter table,  *)
(* the utility arithmetic, make_decision, set_parameters and the two       *)
(* sweeps, sensitivity_analysis and two_way_analysis.                      *)
(*                                                                         *)
(* Numbers.  Parameter values are integers of a grid on which the real     *)
(* arithmetic of the code is exact: lives saved is always 0, a tenth power *)
(* (so that x ** 0.9 is an integer) or negative, and risk_aversion is a    *)
(* natural number.  A utility is a record: [k |-> "num", v |-> n] is the   *)
(* number n, "nan" is IEEE not-a-number and "complex" a Python complex.    *)
(* A negative base raised to 0.9 is not a real number: Python's float and  *)
(* int give a complex, numpy's float64 gives nan.  Which of the two the    *)
(* caller's values are is the variable numeric.                            *)
(***************************************************************************)
EXTENDS Integers, Sequences, FiniteSets, TLC

VARIABLES params, numeric, op, args, pre, outcome, rows, warnings, ret,
          serialized, thr, bad

vars == <<params, numeric, op, args, pre, outcome, rows, warnings, ret,
          serialized, thr, bad>>

seqVars == <<op, args, pre, outcome, rows, warnings, ret>>
concVars == <<serialized, thr, bad>>

\* ---------------------------------------------------------------- bounds
\* The longest value sequence handed to a sweep.
MaxLen == 2
\* The most keyword arguments handed to set_parameters.
MaxKw == 2

\* ------------------------------------------------------------ parameters
Names == {"baseline_deaths", "vaccine_efficacy", "voluntary_adoption",
          "mandate_adoption", "value_of_life", "freedom_value",
          "enforcement_cost", "risk_aversion"}

\* A name that is no key of the table.
Unknown == "herd_immunity"

\* __init__: the defaults, on the grid (mandate wins, as with the code's).
Defaults == [baseline_deaths |-> 1024, vaccine_efficacy |-> 1,
             voluntary_adoption |-> 0, mandate_adoption |-> 1,
             value_of_life |-> 4, freedom_value |-> 512,
             enforcement_cost |-> 512, risk_aversion |-> 1]

\* The values a caller passes for a parameter (for the two cost scales,
\* value_of_life and enforcement_cost, the value they already have).
Dom(p) == CASE p = "baseline_deaths" -> {1, 1024}
            [] p = "vaccine_efficacy" -> {-1, 0}
            [] p = "voluntary_adoption" -> {0, 1}
            [] p = "mandate_adoption" -> {0, 1}
            [] p = "value_of_life" -> {4}
            [] p = "freedom_value" -> {0, 512}
            [] p = "enforcement_cost" -> {512}
            [] p = "risk_aversion" -> {0, 2}
            [] OTHER -> {0}

\* self.params[k] = v on a Python dict: a missing key is added.
DictSet(d, k, v) == [x \in (DOMAIN d) \cup {k} |-> IF x = k THEN v ELSE d[x]]

\* Lookup as self.params.get(k, 0): a missing key reads as 0.
LookupDefault(d, k) == [ok |-> TRUE, v |-> IF k \in DOMAIN d THEN d[k] ELSE 0]

\* self.params[k] read: a missing key raises KeyError.
Lookup(d, k) == IF k \in DOMAIN d THEN [ok |-> TRUE, v |-> d[k]]
                ELSE [ok |-> FALSE, v |-> 0]

EmptyDict == [x \in {} |-> 0]

\* ------------------------------------------------------------ arithmetic
Num(n) == [k |-> "num", v |-> n]
NaN == [k |-> "nan", v |-> 0]
Complex == [k |-> "complex", v |-> 0]

\* diminishing_factor = 0.9, as the fraction DimNum / DimDen.
DimNum == 9
DimDen == 10

\* b ** e for a natural exponent e (0 ** 0 is 1, as in Python).
IntPow(b, e) == IF e = 0 THEN 1 ELSE b ^ e

\* x ** 0.9: real for x >= 0; for x < 0 a complex (Python) or nan (numpy).
PowDiminishing(x, nm) ==
    IF x < 0 THEN (IF nm = "numpy" THEN NaN ELSE Complex)
    ELSE LET root == CHOOSE r \in 0..2 : r ^ DimDen = x
         IN Num(root ^ DimNum)

\* u * n and u + n for a utility u and a number n.
Scale(u, n) == IF u.k = "num" THEN Num(u.v * n) ELSE u
Plus(u, n) == IF u.k = "num" THEN Num(u.v + n) ELSE u

\* a - b on floats: nan if either is nan.
Minus(a, b) == IF a.k = "num" /\ b.k = "num" THEN Num(a.v - b.v) ELSE NaN

\* a > b on floats: false if either is nan.
Gt(a, b) == a.k = "num" /\ b.k = "num" /\ a.v > b.v

calculate_deaths(ps, a) ==
    ps.baseline_deaths * a * (1 - ps.vaccine_efficacy)
      + ps.baseline_deaths * (1 - a)

calculate_lives_saved(ps, a) == ps.baseline_deaths - calculate_deaths(ps, a)

calculate_freedom_utility(ps, m) == IF m THEN (0 - ps.freedom_value) * 1 ELSE 0

calculate_enforcement_costs(ps, m) == IF m THEN 0 - ps.enforcement_cost ELSE 0

calculate_life_utility(ps, m, nm) ==
    LET lives == IF m THEN calculate_lives_saved(ps, ps.mandate_adoption)
                 ELSE calculate_lives_saved(ps, ps.voluntary_adoption)
    IN Scale(PowDiminishing(lives, nm), ps.value_of_life)

\* The result, or [k |-> "TypeError"] when total >= 0 is asked of a complex.
calculate_total_utility(ps, m, nm) ==
    LET total == Plus(Plus(calculate_life_utility(ps, m, nm),
                           calculate_freedom_utility(ps, m)),
                      calculate_enforcement_costs(ps, m))
        r == ps.risk_aversion
    IN CASE total.k = "complex" -> [k |-> "TypeError", v |-> 0]
         [] total.k = "nan" -> IF r = 0 THEN Num(0 - 1) ELSE NaN
         [] OTHER -> IF total.v >= 0 THEN Num(IntPow(total.v, r))
                     ELSE Num(0 - IntPow(0 - total.v, r))

\* Recommend with >= for >.
RecommendOnTie(um, uv) == Gt(um, uv) \/ (um.k = "num" /\ um = uv)

\* utility_with_mandate > utility_without_mandate
Recommend(um, uv) == Gt(um, uv)

make_decision(ps, nm) ==
    LET um == calculate_total_utility(ps, TRUE, nm)
        uv == calculate_total_utility(ps, FALSE, nm)
    IN IF um.k = "TypeError" \/ uv.k = "TypeError"
       THEN [raised |-> TRUE, decision |-> FALSE, um |-> NaN, uv |-> NaN]
       ELSE [raised |-> FALSE, decision |-> Recommend(um, uv),
             um |-> um, uv |-> uv]

\* ------------------------------------------------------- set_parameters
\* SetOne without the test key in self.params.
SetOneUnguarded(st, key, value) ==
    [params |-> DictSet(st.params, key, value), warnings |-> st.warnings]

\* One turn of the loop: a key of the table is overwritten, any other key
\* is reported (the printed warning) and skipped.
SetOne(st, key, value) ==
    IF key \in DOMAIN st.params
    THEN [params |-> DictSet(st.params, key, value), warnings |-> st.warnings]
    ELSE [params |-> st.params, warnings |-> Append(st.warnings, key)]

RECURSIVE SetLoop(_, _, _)
SetLoop(st, kw, i) ==
    IF i > Len(kw) THEN st
    ELSE SetLoop(SetOne(st, kw[i][1], kw[i][2]), kw, i + 1)

set_parameters(ps, kw) == SetLoop([params |-> ps, warnings |-> <<>>], kw, 1)

\* ------------------------------------------------- sensitivity_analysis
Label(decision) == IF decision THEN "Mandate" ELSE "Voluntary"

\* SensRow with the difference taken the other way round.
SensRowReversed(value, d) ==
    [value |-> value, decision |-> Label(d.decision),
     utility_mandate |-> d.um, utility_voluntary |-> d.uv,
     utility_difference |-> Minus(d.uv, d.um)]

SensRow(value, d) ==
    [value |-> value, decision |-> Label(d.decision),
     utility_mandate |-> d.um, utility_voluntary |-> d.uv,
     utility_difference |-> Minus(d.um, d.uv)]

\* The for loop from its i-th turn on; a raising make_decision leaves it.
RECURSIVE SensLoop(_, _, _, _, _, _)
SensLoop(ps, p, vs, i, acc, nm) ==
    IF i > Len(vs) THEN [params |-> ps, rows |-> acc, raised |-> FALSE]
    ELSE LET ps1 == DictSet(ps, p, vs[i])
             d == make_decision(ps1, nm)
         IN IF d.raised THEN [params |-> ps1, rows |-> acc, raised |-> TRUE]
            ELSE SensLoop(ps1, p, vs, i + 1, Append(acc, SensRow(vs[i], d)), nm)

\* Restore left out.
RestoreSkipped(ps, p, original) == ps

\* self.params[parameter] = original_value
Restore(ps, p, original) == DictSet(ps, p, original)

sensitivity_analysis(ps, p, vs, nm) ==
    LET original == Lookup(ps, p)
    IN IF ~original.ok
       THEN [params |-> ps, rows |-> <<>>, outcome |-> "KeyError"]
       ELSE LET l == SensLoop(ps, p, vs, 1, <<>>, nm)
            IN IF l.raised
               THEN [params |-> l.params, rows |-> <<>>, outcome |-> "TypeError"]
               ELSE [params |-> Restore(l.params, p, original.v),
                     rows |-> l.rows, outcome |-> "ok"]

\* ------------------------------------------------------ two_way_analysis
\* {param1: val1, param2: val2, "decision": ...}: a dict display, so of two
\* equal keys the later one stays.
TwoWayRow(p1, v1, p2, v2, d) ==
    DictSet(DictSet(DictSet(EmptyDict, p1, v1), p2, v2),
            "decision", Label(d.decision))

RECURSIVE TwoWayInner(_, _, _, _, _, _, _, _)
TwoWayInner(ps, p1, v1, p2, vs2, j, acc, nm) ==
    IF j > Len(vs2) THEN [params |-> ps, rows |-> acc, raised |-> FALSE]
    ELSE LET ps1 == DictSet(DictSet(ps, p1, v1), p2, vs2[j])
             d == make_decision(ps1, nm)
         IN IF d.raised THEN [params |-> ps1, rows |-> acc, raised |-> TRUE]
            ELSE TwoWayInner(ps1, p1, v1, p2, vs2, j + 1,
                             Append(acc, TwoWayRow(p1, v1, p2, vs2[j], d)), nm)

RECURSIVE TwoWayOuter(_, _, _, _, _, _, _, _)
TwoWayOuter(ps, p1, vs1, p2, vs2, i, acc, nm) ==
    IF i > Len(vs1) THEN [params |-> ps, rows |-> acc, raised |-> FALSE]
    ELSE LET l == TwoWayInner(ps, p1, vs1[i], p2, vs2, 1, acc, nm)
         IN IF l.raised THEN l
            ELSE TwoWayOuter(l.params, p1, vs1, p2, vs2, i + 1, l.rows, nm)

\* Restore2 with the second assignment left out.
Restore2FirstOnly(ps, p1, original1, p2, original2) == DictSet(ps, p1, original1)

\* self.params[param1] = original_value1; self.params[param2] = original_value2
Restore2(ps, p1, original1, p2, original2) ==
    DictSet(DictSet(ps, p1, original1), p2, original2)

two_way_analysis(ps, p1, vs1, p2, vs2, nm) ==
    LET original1 == Lookup(ps, p1)
        original2 == Lookup(ps, p2)
    IN IF ~original1.ok \/ ~original2.ok
       THEN [params |-> ps, rows |-> <<>>, outcome |-> "KeyError"]
       ELSE LET l == TwoWayOuter(ps, p1, vs1, p2, vs2, 1, <<>>, nm)
            IN IF l.raised
               THEN [params |-> l.params, rows |-> <<>>, outcome |-> "TypeError"]
               ELSE [params |-> Restore2(l.params, p1, original1.v,
                                         p2, original2.v),
                     rows |-> l.rows, outcome |-> "ok"]

\* ------------------------------------------------------------- the calls
\* The value sequences a caller hands to a sweep over p.
Values(p) == UNION {[1..n -> Dom(p)] : n \in 0..MaxLen}

SweepNames == Names \cup {Unknown}

\* The pairs of names a caller hands to two_way_analysis.
TwoWayPairs == {<<"mandate_adoption", "freedom_value">>,
                <<"mandate_adoption", "mandate_adoption">>,
                <<"mandate_adoption", Unknown>>,
                <<Unknown, "freedom_value">>}

\* The keyword arguments a caller hands to set_parameters: distinct keys, in
\* the order written.
KwPairs == {<<"vaccine_efficacy", -1>>, <<"vaccine_efficacy", 0>>,
            <<"vaccine_efficacy", 1>>,
            <<"freedom_value", 0>>, <<"freedom_value", 512>>,
            <<"risk_aversion", 0>>, <<"risk_aversion", 2>>,
            <<Unknown, 1>>}

KwArgs == {kw \in UNION {[1..n -> KwPairs] : n \in 0..MaxKw} :
             \A i, j \in 1..Len(kw) : i # j => kw[i][1] # kw[j][1]}

NoThreads == [t \in {1, 2} |-> [pc |-> "none"]]

Init ==
    /\ params = Defaults
    /\ numeric \in {"python", "numpy"}
    /\ op = "idle"
    /\ args = <<>>
    /\ pre = Defaults
    /\ outcome = "ok"
    /\ rows = <<>>
    /\ warnings = <<>>
    /\ ret = <<>>
    /\ serialized = FALSE
    /\ thr = NoThreads
    /\ bad = FALSE

Decide ==
    LET d == make_decision(params, numeric)
    IN /\ op = "idle"
       /\ op' = "make_decision"
       /\ args' = <<>>
       /\ pre' = params
       /\ outcome' = IF d.raised THEN "TypeError" ELSE "ok"
       /\ ret' = IF d.raised THEN <<>> ELSE <<d.decision, d.um, d.uv>>
       /\ rows' = <<>>
       /\ warnings' = <<>>
       /\ UNCHANGED <<params, numeric>>
       /\ UNCHANGED concVars

SetParameters ==
    \E kw \in KwArgs :
       LET r == set_parameters(params, kw)
       IN /\ op = "idle"
          /\ op' = "set_parameters"
          /\ args' = kw
          /\ pre' = params
          /\ params' = r.params
          /\ warnings' = r.warnings
          /\ outcome' = "ok"
          /\ ret' = <<>>
          /\ rows' = <<>>
          /\ UNCHANGED numeric
          /\ UNCHANGED concVars

SensitivityAnalysis ==
    \E p \in SweepNames : \E vs \in Values(p) :
       LET r == sensitivity_analysis(params, p, vs, numeric)
       IN /\ op = "idle"
          /\ op' = "sensitivity_analysis"
          /\ args' = [parameter |-> p, values |-> vs]
          /\ pre' = params
          /\ params' = r.params
          /\ rows' = r.rows
          /\ outcome' = r.outcome
          /\ ret' = <<>>
          /\ warnings' = <<>>
          /\ UNCHANGED numeric
          /\ UNCHANGED concVars

TwoWayAnalysis ==
    \E pp \in TwoWayPairs : \E vs1 \in Values(pp[1]) : \E vs2 \in Values(pp[2]) :
       LET r == two_way_analysis(params, pp[1], vs1, pp[2], vs2, numeric)
       IN /\ op = "idle"
          /\ op' = "two_way_analysis"
          /\ args' = [param1 |-> pp[1], values1 |-> vs1,
                      param2 |-> pp[2], values2 |-> vs2]
          /\ pre' = params
          /\ params' = r.params
          /\ rows' = r.rows
          /\ outcome' = r.outcome
          /\ ret' = <<>>
          /\ warnings' = <<>>
          /\ UNCHANGED numeric
          /\ UNCHANGED concVars

\* The caller has printed or plotted what the call returned and drops it;
\* the model keeps its parameters for the next call.
Consume ==
    /\ op # "idle"
    /\ op' = "idle"
    /\ args' = <<>>
    /\ pre' = params
    /\ outcome' = "ok"
    /\ rows' = <<>>
    /\ warnings' = <<>>
    /\ ret' = <<>>
    /\ UNCHANGED <<params, numeric>>
    /\ UNCHANGED concVars

Next == Decide \/ SetParameters \/ SensitivityAnalysis \/ TwoWayAnalysis
          \/ Consume

Spec == Init /\ [][Next]_vars


\* ---------------------------------------------------- interleaved sweeps
\* Two callers, each running one sweep on the same model, a step at a time:
\* every read and write of self.params by a sweep's own lines is a step;
\* make_decision reads the table in one step.  With serialized, a call
\* starts only when no other call is under way.
Threads == {1, 2}

SensCalls ==
    {[kind |-> "sens", p1 |-> p, vs1 |-> vs, p2 |-> p, vs2 |-> <<>>] :
        p \in {"vaccine_efficacy"}, vs \in Values("vaccine_efficacy")}
    \cup
    {[kind |-> "sens", p1 |-> p, vs1 |-> vs, p2 |-> p, vs2 |-> <<>>] :
        p \in {"freedom_value"}, vs \in Values("freedom_value")}

TwoWayCalls ==
    {[kind |-> "twoway", p1 |-> "freedom_value", vs1 |-> vs1,
      p2 |-> "vaccine_efficacy", vs2 |-> vs2] :
        vs1 \in {<<>>, <<0>>}, vs2 \in {<<>>, <<0>>, <<-1>>}}

\* The loop position after (i, j): the next pair of the product, or the
\* restore when the product is exhausted.
RECURSIVE Advance(_, _, _)
Advance(c, i, j) ==
    IF c.kind = "sens"
    THEN IF i <= Len(c.vs1) THEN [pc |-> "write1", i |-> i, j |-> 1]
         ELSE [pc |-> "restore1", i |-> i, j |-> 1]
    ELSE IF i > Len(c.vs1) THEN [pc |-> "restore1", i |-> i, j |-> 1]
         ELSE IF j > Len(c.vs2) THEN Advance(c, i + 1, 1)
         ELSE [pc |-> "write1", i |-> i, j |-> j]

\* The table a sweep running alone would hand to make_decision at (i, j).
Expected(th) ==
    IF th.call.kind = "sens"
    THEN DictSet(pre, th.call.p1, th.call.vs1[th.i])
    ELSE DictSet(DictSet(pre, th.call.p1, th.call.vs1[th.i]),
                 th.call.p2, th.call.vs2[th.j])

ConcInit ==
    /\ params = Defaults
    /\ numeric \in {"python", "numpy"}
    /\ op = "idle"
    /\ args = <<>>
    /\ pre = Defaults
    /\ outcome = "ok"
    /\ rows = <<>>
    /\ warnings = <<>>
    /\ ret = <<>>
    /\ serialized \in BOOLEAN
    /\ thr = [t \in Threads |-> [pc |-> "ready"]]
    /\ bad = FALSE

\* The caller is inside its sweep.
Busy(t) == thr[t].pc \notin {"ready", "done", "raised"}

\* results = []; original_value(1) = self.params[parameter]
Call(t) ==
    /\ thr[t].pc = "ready"
    /\ serialized => \A u \in Threads \ {t} : ~Busy(u)
    /\ \E c \in SensCalls \cup TwoWayCalls :
          thr' = [thr EXCEPT ![t] =
                    [pc |-> IF c.kind = "sens" THEN "loop" ELSE "lookup2",
                     call |-> c, i |-> 1, j |-> 1,
                     o1 |-> Lookup(params, c.p1).v, o2 |-> 0, rows |-> <<>>]]
    /\ UNCHANGED <<params, numeric, serialized, bad>>
    /\ UNCHANGED seqVars

\* original_value2 = self.params[param2]
Lookup2(t) ==
    /\ thr[t].pc = "lookup2"
    /\ thr' = [thr EXCEPT ![t].o2 = Lookup(params, thr[t].call.p2).v,
                          ![t].pc = "loop"]
    /\ UNCHANGED <<params, numeric, serialized, bad>>
    /\ UNCHANGED seqVars

\* for value in values: the next value, or the end of the loop.
LoopHead(t) ==
    /\ thr[t].pc = "loop"
    /\ LET a == Advance(thr[t].call, thr[t].i, thr[t].j)
       IN thr' = [thr EXCEPT ![t].pc = a.pc, ![t].i = a.i, ![t].j = a.j]
    /\ UNCHANGED <<params, numeric, serialized, bad>>
    /\ UNCHANGED seqVars

\* self.params[parameter] = value, self.params[param1] = val1
Write1(t) ==
    /\ thr[t].pc = "write1"
    /\ params' = DictSet(params, thr[t].call.p1, thr[t].call.vs1[thr[t].i])
    /\ thr' = [thr EXCEPT ![t].pc = IF thr[t].call.kind = "sens"
                                    THEN "decide" ELSE "write2"]
    /\ UNCHANGED <<numeric, serialized, bad>>
    /\ UNCHANGED seqVars

\* self.params[param2] = val2
Write2(t) ==
    /\ thr[t].pc = "write2"
    /\ params' = DictSet(params, thr[t].call.p2, thr[t].call.vs2[thr[t].j])
    /\ thr' = [thr EXCEPT ![t].pc = "decide"]
    /\ UNCHANGED <<numeric, serialized, bad>>
    /\ UNCHANGED seqVars

\* decision, ... = self.make_decision(); results.append(...).  A raising
\* make_decision ends the call there.  bad records that the row was made
\* from a table other than the one the sweep alone would have made.
DecideStep(t) ==
    /\ thr[t].pc = "decide"
    /\ LET d == make_decision(params, numeric)
           th == thr[t]
           row == IF th.call.kind = "sens"
                  THEN SensRow(th.call.vs1[th.i], d)
                  ELSE TwoWayRow(th.call.p1, th.call.vs1[th.i],
                                 th.call.p2, th.call.vs2[th.j], d)
       IN IF d.raised
          THEN /\ thr' = [thr EXCEPT ![t].pc = "raised"]
               /\ bad' = bad
          ELSE /\ thr' = [thr EXCEPT ![t].pc = "loop",
                                     ![t].rows = Append(th.rows, row),
                                     ![t].i = IF th.call.kind = "sens"
                                              THEN th.i + 1 ELSE th.i,
                                     ![t].j = IF th.call.kind = "sens"
                                              THEN th.j ELSE th.j + 1]
               /\ bad' = (bad \/ params # Expected(th))
    /\ UNCHANGED <<params, numeric, serialized>>
    /\ UNCHANGED seqVars

\* self.params[parameter] = original_value, self.params[param1] = original_value1
Restore1(t) ==
    /\ thr[t].pc = "restore1"
    /\ params' = Restore(params, thr[t].call.p1, thr[t].o1)
    /\ thr' = [thr EXCEPT ![t].pc = IF thr[t].call.kind = "sens"
                                    THEN "done" ELSE "restore2"]
    /\ UNCHANGED <<numeric, serialized, bad>>
    /\ UNCHANGED seqVars

\* self.params[param2] = original_value2; return
RestoreSecond(t) ==
    /\ thr[t].pc = "restore2"
    /\ params' = Restore(params, thr[t].call.p2, thr[t].o2)
    /\ thr' = [thr EXCEPT ![t].pc = "done"]
    /\ UNCHANGED <<numeric, serialized, bad>>
    /\ UNCHANGED seqVars

ConcNext ==
    \E t \in Threads :
       \/ Call(t)
       \/ Lookup2(t)
       \/ LoopHead(t)
       \/ Write1(t)
       \/ Write2(t)
       \/ DecideStep(t)
       \/ Restore1(t)
       \/ RestoreSecond(t)

SpecConc == ConcInit /\ [][ConcNext]_vars

\* ================================================================ claims
IsSweep == op \in {"sensitivity_analysis", "two_way_analysis"}

\* Lives saved is negative on one of the two branches of make_decision.
NegativeLives(ps) ==
    \/ calculate_lives_saved(ps, ps.mandate_adoption) < 0
    \/ calculate_lives_saved(ps, ps.voluntary_adoption) < 0

\* C1: after sensitivity_analysis(p, values) has returned, for a key p of the
\* table and any value sequence (the empty one too), params[p] is what it
\* was before the call, and so is every other parameter.
C1_SensitivityRestores ==
    (op = "sensitivity_analysis" /\ outcome = "ok") =>
        /\ params[args.parameter] = pre[args.parameter]
        /\ params = pre

\* A sweep has returned whose last value is not the parameter's own.
C1_Witness ==
    /\ op = "sensitivity_analysis" /\ outcome = "ok"
    /\ Len(args.values) = MaxLen
    /\ args.values[Len(args.values)] # pre[args.parameter]

\* C2: after two_way_analysis(param1, values1, param2, values2) has returned,
\* for keys param1 and param2 of the table, equal or not, and any two value
\* sequences, params[param1] and params[param2] are what they were before
\* the call.
C2_TwoWayRestores ==
    (op = "two_way_analysis" /\ outcome = "ok") =>
        /\ params[args.param1] = pre[args.param1]
        /\ params[args.param2] = pre[args.param2]

\* A two-way sweep over two different keys has returned, and the last value
\* of each sequence is not the parameter's own.
C2_Witness ==
    /\ op = "two_way_analysis" /\ outcome = "ok"
    /\ args.param1 # args.param2
    /\ Len(args.values1) > 0 /\ Len(args.values2) > 0
    /\ args.values1[Len(args.values1)] # pre[args.param1]
    /\ args.values2[Len(args.values2)] # pre[args.param2]

\* C3: when a decision fails part-way through a sweep, the parameters after
\* the failed call are the parameters before it.
C3_RestoredAfterFailure ==
    (IsSweep /\ outcome = "TypeError") => params = pre

\* C4: a decision with negative lives saved ends in an UndefinedUtility
\* error, and no returned decision or row was derived from an undefined
\* utility.
C4_UndefinedUtilitySignalled ==
    /\ (op = "make_decision" /\ NegativeLives(pre)) =>
           outcome = "UndefinedUtility"
    /\ (op = "sensitivity_analysis" /\ args.parameter \in Names) =>
           \A i \in 1..Len(rows) :
               ~NegativeLives(DictSet(pre, args.parameter, args.values[i]))
    /\ (op = "two_way_analysis" /\ Len(rows) > 0) =>
           \A i \in 1..Len(args.values1) : \A j \in 1..Len(args.values2) :
               ~NegativeLives(DictSet(DictSet(pre, args.param1, args.values1[i]),
                                      args.param2, args.values2[j]))

\* C5: a sweep called with a name that is no key of the table (for
\* two_way_analysis either name, also when only the second is unknown) fails
\* with the lookup's KeyError, returns no row and leaves the table as it
\* was: no value changed, no key added.
C5_UnknownNameFails ==
    /\ (op = "sensitivity_analysis" /\ args.parameter \notin Names) =>
           outcome = "KeyError" /\ rows = <<>> /\ params = pre
             /\ DOMAIN params = Names
    /\ (op = "two_way_analysis"
          /\ (args.param1 \notin Names \/ args.param2 \notin Names)) =>
           outcome = "KeyError" /\ rows = <<>> /\ params = pre
             /\ DOMAIN params = Names

\* two_way_analysis was called with a known first and an unknown second
\* name and values to sweep.
C5_Witness ==
    /\ op = "two_way_analysis"
    /\ args.param1 \in Names /\ args.param2 \notin Names
    /\ Len(args.values1) > 0 /\ Len(args.values2) > 0
    /\ outcome = "KeyError"

\* C6: set_parameters overwrites every key of the table it is given, warns
\* about every other key and goes on (a known key after an unknown one is
\* still set), adds no key and leaves every parameter it was not given
\* alone; so the keys of the table are the eight names in every state.
C6_SetParameters ==
    /\ DOMAIN params = Names
    /\ op = "set_parameters" =>
        /\ outcome = "ok"
        /\ \A i \in 1..Len(args) :
              IF args[i][1] \in Names
              THEN params[args[i][1]] = args[i][2]
              ELSE \E j \in 1..Len(warnings) : warnings[j] = args[i][1]
        /\ Len(warnings)
             = Cardinality({i \in 1..Len(args) : args[i][1] \notin Names})
        /\ \A n \in Names :
              (\A i \in 1..Len(args) : args[i][1] # n) => params[n] = pre[n]

\* set_parameters was given an unknown key and then a known one with a new
\* value.
C6_Witness ==
    /\ op = "set_parameters" /\ Len(args) = 2
    /\ args[1][1] \notin Names /\ args[2][1] \in Names
    /\ args[2][2] # pre[args[2][1]]
    /\ params[args[2][1]] = args[2][2]

\* C7: make_decision returns calculate_total_utility(True) and (False) of
\* the current parameters and recommends the mandate exactly when the first
\* is greater than the second; on a tie it recommends Voluntary.
C7_DecisionRule ==
    (op = "make_decision" /\ outcome = "ok") =>
        /\ ret[2] = calculate_total_utility(params, TRUE, numeric)
        /\ ret[3] = calculate_total_utility(params, FALSE, numeric)
        /\ ret[1] <=> (ret[2].k = "num" /\ ret[3].k = "num"
                         /\ ret[2].v > ret[3].v)
        /\ (ret[2] = ret[3]) => ~ret[1]

\* make_decision has returned two equal numbers.
C7_Witness ==
    /\ op = "make_decision" /\ outcome = "ok"
    /\ ret[2].k = "num" /\ ret[2] = ret[3]
    /\ ret[1] = FALSE

\* C8: sensitivity_analysis(p, values) returns one row per value, in the
\* order of values; row i has value = values[i], the decision and the two
\* utilities make_decision gives on the parameters before the call with p
\* alone set to values[i], and utility_difference = utility_mandate -
\* utility_voluntary.
C8_SensitivityRows ==
    (op = "sensitivity_analysis" /\ outcome = "ok") =>
        /\ Len(rows) = Len(args.values)
        /\ \A i \in 1..Len(rows) :
              LET d == make_decision(
                         [pre EXCEPT ![args.parameter] = args.values[i]],
                         numeric)
              IN /\ rows[i].value = args.values[i]
                 /\ rows[i].decision = (IF d.decision THEN "Mandate"
                                        ELSE "Voluntary")
                 /\ rows[i].utility_mandate = d.um
                 /\ rows[i].utility_voluntary = d.uv
                 /\ rows[i].utility_difference
                      = (IF d.um.k = "num" /\ d.uv.k = "num"
                         THEN Num(d.um.v - d.uv.v) ELSE NaN)

\* A sweep has returned two rows with different decisions and a utility
\* difference that is not zero.
C8_Witness ==
    /\ op = "sensitivity_analysis" /\ outcome = "ok"
    /\ Len(rows) = 2
    /\ rows[1].decision # rows[2].decision
    /\ rows[1].utility_difference.k = "num"
    /\ rows[1].utility_difference.v # 0
    /\ rows[2].value # pre[args.parameter]

\* C9: two_way_analysis returns len(values1) * len(values2) rows, one per
\* pair (v1, v2), values1 the outer and values2 the inner loop; each row has
\* v1 under param1 and v2 under param2, and its decision is make_decision's
\* on the parameters before the call with param1 set to v1 and param2 to v2.
C9_TwoWayRows ==
    (op = "two_way_analysis" /\ outcome = "ok") =>
        /\ Len(rows) = Len(args.values1) * Len(args.values2)
        /\ \A i \in 1..Len(args.values1) : \A j \in 1..Len(args.values2) :
              LET row == rows[(i - 1) * Len(args.values2) + j]
                  v1 == args.values1[i]
                  v2 == args.values2[j]
                  d == make_decision(
                         DictSet(DictSet(pre, args.param1, v1), args.param2, v2),
                         numeric)
              IN /\ row[args.param1] = v1
                 /\ row[args.param2] = v2
                 /\ row["decision"] = (IF d.decision THEN "Mandate"
                                       ELSE "Voluntary")

AllReturned == \A t \in Threads : thr[t].pc = "done"

\* C10: sweeps are not safe to run at once on one model: interleaved, a
\* sweep can record a row made from a value the other sweep wrote, or leave
\* a swept parameter changed after both have returned (C10_Witness); with
\* the two calls serialized neither happens.
C10_SerializedSafe ==
    serialized => (~bad /\ (AllReturned => params = pre))

\* Interleaved, both sweeps have returned, a row was made from the other
\* sweep's value and a swept parameter is not what it was.
C10_Witness ==
    /\ ~serialized
    /\ AllReturned
    /\ bad
    /\ params # pre
====
